---- MODULE Spec2Model ----
(***************************************************************************)
(* A model of robust_downloader: RobustDownloader::download (lib.rs), the  *)
(* retry loop download_with_retry (lib.rs), one attempt                    *)
(* DownloadTaskRunner::download (task.rs) and the error classification     *)
(* ProgressDownloadError::into_backoff_err (err.rs).                       *)
(*                                                                         *)
(* One action is one resumption of an item's future: from the await point  *)
(* it was suspended at to the next one.  try_join_all polls all item       *)
(* futures inside one task, so such a resumption is atomic with respect to *)
(* the sibling items.                                                      *)
(*                                                                         *)
(* Sizes are counted in units of 256 KiB (one chunk of the body stream is  *)
(* one unit, a "byte" of the model), times in milliseconds.                *)
(***************************************************************************)
EXTENDS Integers, Sequences, FiniteSets, TLC

\* ---------------------------------------------------------------- bounds
\* Number of items handed to one download call in the batch specification.
NumItems == 3
\* Length of every served resource, in units.
ContentLen == 2
\* Number of faults (transport errors, error statuses, timeouts, I/O errors)
\* the environment injects during one call.
MaxFaults == 2

\* ------------------------------------------------------ program constants
max_concurrent == 2
timeout == 60000
flush_threshold == 2
writer_capacity == 4
initial_interval == 500
\* randomization_factor 0.15, in percent.
randomization_factor == 15
max_interval == 5000
max_elapsed_time == 120000

Items == 1 .. NumItems

\* ------------------------------------------------------------------ files
\* A file is the sequence of its units; a path that holds no file is NoFile.
NoFile == << -1 >>
\* temp_file.metadata().map(|m| m.len()).unwrap_or(0)
FileLen(f) == IF f = NoFile THEN 0 ELSE Len(f)

\* ----------------------------------------------------------------- server
\* The resource item i points at: ContentLen distinct units.
Content(i) == [p \in 1 .. ContentLen |-> 10 * i + p]
\* The body a server sends with a status that is neither 200 nor 206.
ErrBody == << 0 >>
\* What a temp file or a destination left by an earlier program run may hold
\* that is not a prefix of the resource.
StaleFile == << 9 >>
OldDest == << 8 >>

\* The body of a response with status s to "Range: bytes=k-".
Body(i, s, k) ==
    IF s = 206 THEN SubSeq(Content(i), k + 1, ContentLen)
    ELSE IF s = 200 THEN Content(i)
    ELSE ErrBody

\* Statuses a server answers without any fault: the full resource (200), the
\* requested range (206) when it is satisfiable, 416 when it is not.
PlainStatuses(k) == {200, IF k < ContentLen THEN 206 ELSE 416}
\* Statuses that report a failure of the request.
FaultStatuses == {404, 429, 503}
\* The status of a server that honors "Range: bytes=k-".
RangedStatus(k) == IF k < ContentLen THEN 206 ELSE 416

\* ----------------------------------------------------------------- errors
NoErr == [type |-> "None"]
\* What the call has returned: nothing yet, Ok(()), or Err(e) as the error e.
Running == [type |-> "Running"]
Ok == [type |-> "Ok"]
\* try_join_all has returned Ok and the call has not returned yet.
Joined == [type |-> "Joined"]
IoErr(k) == [type |-> "Io", kind |-> k]
ReqwestErr(k) == [type |-> "Reqwest", kind |-> k, status |-> 0]
TimeoutErr == [type |-> "Timeout"]
PathErr == [type |-> "Path"]
IntegrityErr == [type |-> "IntegrityHash"]

\* The faults the environment injects.
IoFaults == {"Interrupted", "PermissionDenied"}
ReqwestFaults == {"timeout", "builder"}
ChunkFaults == {TimeoutErr, ReqwestErr("body")}
\* How long a failed attempt lasted: no time at all, or the request timeout.
Durations == {0, timeout}
\* What rand::random() makes of an interval, in percent of it: the least
\* and the most (Jitters), or the interval itself (NoJitter).
Jitters == {-randomization_factor, randomization_factor}
NoJitter == {0}
\* How a failed attempt went, as << its duration, the jitter of the sleep
\* that follows >>: it failed at once, or at the request timeout.
Lapses == {<< 0, 0 >>} \cup {<< timeout, r >> : r \in Jitters}

\* err.rs: is_retry_error.  A status of 0 is "no status".
is_retry_error(e) ==
    \/ e.kind \in {"timeout", "connect", "request"}
    \/ (e.status # 0 /\ e.status >= 500 /\ e.status <= 599)
    \/ (e.status # 0 /\ e.status \in {408, 425, 429, 449})
    \/ e.kind \in {"decode", "body"}

\* err.rs: into_backoff_err.  TRUE is backoff::Error::transient, FALSE is
\* backoff::Error::permanent.
\* Mutant of into_backoff_err: every error is transient.
all_transient(e) == TRUE
\* Mutant of into_backoff_err: the Timeout error is permanent.
timeout_permanent(e) ==
    /\ e.type \in {"Io", "Reqwest", "Semaphore"}
    /\ e.type = "Io" => e.kind # "PermissionDenied"
    /\ e.type = "Reqwest" => is_retry_error(e)
into_backoff_err(e) ==
    IF e.type = "Io"
    THEN e.kind \in {"WouldBlock", "Interrupted", "ResourceBusy",
                     "ConnectionReset", "ConnectionAborted", "BrokenPipe",
                     "TimedOut", "OutOfMemory", "Other"}
    ELSE IF e.type = "Reqwest" THEN is_retry_error(e)
    ELSE IF e.type = "Timeout" THEN TRUE
    ELSE IF e.type = "Semaphore" THEN TRUE
    ELSE FALSE

\* -------------------------------------------------------------- integrity
\* The digest of a file: an injective encoding of its units (a cryptographic
\* digest is taken to have no collisions).
RECURSIVE Digest(_)
Digest(f) ==
    IF f = << >> THEN 1
    ELSE Digest(SubSeq(f, 1, Len(f) - 1)) * 50 + f[Len(f)] + 1

\* item.integrity: << >> is None, << d >> is Some(expected digest d).
NoIntegrity == << >>
GoodIntegrity(i) == << Digest(Content(i)) >>
BadIntegrity == << 0 >>

VARIABLES
    downloads,         \* the items handed to the call
    name,              \* item -> file name of its target (0: none); the temp path
    integrity,         \* item -> item.integrity
    prior,             \* item -> the temp file found when the call started
    pc,                \* item -> the await point its future is suspended at
    permits,           \* free permits of the semaphore
    waiters,           \* FIFO queue of the items waiting in sem.acquire()
    result,            \* what the call returned (Running until it does)
    err,               \* item -> the error of its last failed attempt
    attempts,          \* item -> attempts started
    elapsed,           \* item -> time since its retry loop started
    current_interval,  \* item -> backoff.current_interval
    delay,             \* item -> the length of its last backoff sleep (0: none)
    downloaded_size,   \* item -> task.rs:57, the resume offset of the attempt
    status,            \* item -> status of the attempt's response
    remaining_size,    \* item -> response.content_length()
    stream,            \* item -> the units of the body still to arrive
    writer,            \* item -> the BufWriter's buffer
    tracker,           \* item -> DownloadTracker.downloaded_size
    pre,               \* item -> the temp file as the attempt found it
    ranged,            \* item -> every response so far honored its Range
    temp,              \* file name -> file in env::temp_dir()
    dest,              \* item -> file at item.target
    faults             \* faults injected so far

coord == << pc, permits, waiters, result, err >>
retry == << attempts, elapsed, current_interval, delay >>
att == << downloaded_size, status, remaining_size, stream, writer, tracker, pre >>
fs == << temp, dest >>
input == << downloads, name, integrity, prior >>
vars == << input, coord, retry, att, fs, faults, ranged >>


\* ------------------------------------------------------------------ state
Final == {"ok", "failed", "dropped"}
\* Every submitted item has been polled once: try_join_all polls the item
\* futures in order, inside one poll of its own.
Polled == \A j \in downloads : pc[j] # "init"
\* The items that hold a permit of the semaphore.
Holders == {j \in downloads : pc[j] \notin Final \cup {"init", "queued"}}

Min(a, b) == IF a < b THEN a ELSE b

\* lib.rs:224-225.  The temp file of item i: env::temp_dir() joined with the
\* file name of its target, whatever directory the target is in.
\* Mutant of TempPath: one temp file for every item.
TempPathFixed(i) == 1
TempPath(i) == name[i]

\* The per-attempt state of the items in S is dropped with their futures.
DropAttempt(S) ==
    /\ downloaded_size' = [j \in Items |-> IF j \in S THEN 0 ELSE downloaded_size[j]]
    /\ status' = [j \in Items |-> IF j \in S THEN 0 ELSE status[j]]
    /\ remaining_size' = [j \in Items |-> IF j \in S THEN 0 ELSE remaining_size[j]]
    /\ stream' = [j \in Items |-> IF j \in S THEN << >> ELSE stream[j]]
    /\ writer' = [j \in Items |-> IF j \in S THEN << >> ELSE writer[j]]
    /\ tracker' = [j \in Items |-> IF j \in S THEN 0 ELSE tracker[j]]
    /\ pre' = [j \in Items |-> IF j \in S THEN NoFile ELSE pre[j]]

\* lib.rs:158-160.  The permit of an item is dropped with no item waiting:
\* p free permits become p + 1.
\* Mutant of Release: the permit is forgotten instead of dropped.
ReleaseLeaks(p) == p
Release(p) == p + 1

\* The free permits after n item futures that hold one have been dropped.
RECURSIVE ReleaseAll(_, _)
ReleaseAll(p, n) == IF n = 0 THEN p ELSE ReleaseAll(Release(p), n - 1)

\* lib.rs:163.  The retry loop of item i ended with error e: try_join_all
\* returns e at once and the call returns it; the futures of all the other
\* items are dropped where they are, with their permits, their buffers and
\* their places in the semaphore's queue.  Every holder's permit goes back,
\* that of item i too; an item i that fails in its first poll has taken its
\* permit and dropped it within this poll, which leaves the count as it was.
Fail(i, e) ==
    /\ pc' = [j \in Items |->
                IF j = i THEN "failed"
                ELSE IF j \in downloads /\ pc[j] \notin Final THEN "dropped"
                ELSE pc[j]]
    /\ permits' = ReleaseAll(permits, Cardinality(Holders))
    /\ waiters' = << >>
    /\ result' = e
    /\ err' = [err EXCEPT ![i] = e]
    /\ writer' = [j \in Items |-> << >>]
    /\ stream' = [j \in Items |-> << >>]
    /\ tracker' = [j \in Items |-> IF j = i \/ pc[j] = "ok" THEN tracker[j] ELSE 0]
    /\ status' = [j \in Items |-> IF j = i \/ pc[j] = "ok" THEN status[j] ELSE 0]
    /\ remaining_size' =
          [j \in Items |-> IF j = i \/ pc[j] = "ok" THEN remaining_size[j] ELSE 0]
    /\ downloaded_size' =
          [j \in Items |-> IF j = i \/ pc[j] = "ok" THEN downloaded_size[j] ELSE 0]
    /\ pre' = [j \in Items |-> IF j = i \/ pc[j] = "ok" THEN pre[j] ELSE NoFile]

\* lib.rs:156-163.  The retry loop of item i ended in success: its permit is
\* dropped, which hands it to the first item of the queue if there is one;
\* when this was the last item try_join_all returns Ok.
Succeed(i) ==
    /\ IF waiters # << >>
       THEN /\ pc' = [pc EXCEPT ![i] = "ok", ![Head(waiters)] = "granted"]
            /\ waiters' = Tail(waiters)
            /\ permits' = permits
       ELSE /\ pc' = [pc EXCEPT ![i] = "ok"]
            /\ waiters' = waiters
            /\ permits' = Release(permits)
    /\ result' = IF \A j \in downloads \ {i} : pc[j] = "ok" THEN Joined ELSE result
    /\ err' = err

\* lib.rs:85-99 and 239-245 (backoff::future::retry with ExponentialBackoff).
\* The interval that follows current interval c: multiplier 1.5, capped.
\* Mutant of NextInterval: the interval grows without the cap.
NextIntervalUncapped(c) == (c * 3) \div 2
NextInterval(c) == Min((c * 3) \div 2, max_interval)

\* The interval c with the jitter of r percent of it.
RandomizedInterval(c, r) ==
    IF r < 0 THEN c - (c * (-r)) \div 100 ELSE c + (c * r) \div 100

\* No further attempt once the elapsed time el, or el plus the next sleep c,
\* is past max_elapsed_time.
\* Mutant of BudgetExhausted: the elapsed time is not looked at.
BudgetNeverExhausted(el, c) == FALSE
BudgetExhausted(el, c) == el > max_elapsed_time \/ el + c > max_elapsed_time

\* An attempt of item i ended with error e after d ms.  A permanent error,
\* or a transient one with the budget exhausted, ends the retry loop; any
\* other transient error puts the item to sleep for the current interval
\* with a jitter of r percent.
AttemptFails(i, e, d, r) ==
    LET el == elapsed[i] + d
        c == current_interval[i]
        sl == RandomizedInterval(c, r)
    IN  IF into_backoff_err(e) /\ ~BudgetExhausted(el, sl)
        THEN /\ pc' = [pc EXCEPT ![i] = "sleep"]
             /\ err' = [err EXCEPT ![i] = e]
             /\ UNCHANGED << permits, waiters, result >>
             /\ elapsed' = [elapsed EXCEPT ![i] = el + sl]
             /\ current_interval' = [current_interval EXCEPT ![i] = NextInterval(c)]
             /\ delay' = [delay EXCEPT ![i] = sl]
             /\ attempts' = attempts
             /\ DropAttempt({i})
        ELSE /\ Fail(i, e)
             /\ elapsed' = [elapsed EXCEPT ![i] = el]
             /\ UNCHANGED << attempts, current_interval, delay >>

\* Mutant of BeginAttempt: only the first attempt reads the length of the
\* temp file, a retry goes on with the offset it has in memory.
BeginAttemptOnce(i) ==
    /\ attempts' = [attempts EXCEPT ![i] = @ + 1]
    /\ downloaded_size' =
          [downloaded_size EXCEPT
              ![i] = IF attempts[i] = 0 THEN FileLen(temp[TempPath(i)]) ELSE @]
    /\ pre' = [pre EXCEPT ![i] = temp[TempPath(i)]]
    /\ UNCHANGED << status, remaining_size, stream, writer, tracker >>
    /\ UNCHANGED << elapsed, current_interval, delay >>

\* task.rs:55-59.  An attempt starts: the length of the temp file is read
\* and the request with "Range: bytes=<length>-" is sent.
BeginAttempt(i) ==
    /\ attempts' = [attempts EXCEPT ![i] = @ + 1]
    /\ downloaded_size' = [downloaded_size EXCEPT ![i] = FileLen(temp[TempPath(i)])]
    /\ pre' = [pre EXCEPT ![i] = temp[TempPath(i)]]
    /\ UNCHANGED << status, remaining_size, stream, writer, tracker >>
    /\ UNCHANGED << elapsed, current_interval, delay >>

\* Mutant of Enter: the file name is looked for inside the first attempt.
EnterLate(i, p) ==
    IF name[i] = 0
    THEN /\ Fail(i, PathErr)
         /\ attempts' = [attempts EXCEPT ![i] = @ + 1]
         /\ UNCHANGED << elapsed, current_interval, delay >>
    ELSE /\ pc' = [pc EXCEPT ![i] = "send"]
         /\ permits' = p
         /\ UNCHANGED << waiters, result, err >>
         /\ BeginAttempt(i)

\* lib.rs:216-245.  Item i holds a permit (p permits stay free) and enters
\* download_with_retry: a target without a file name is a Path error, else
\* the first attempt starts.
Enter(i, p) ==
    IF name[i] = 0
    THEN /\ Fail(i, PathErr)
         /\ UNCHANGED retry
    ELSE /\ pc' = [pc EXCEPT ![i] = "send"]
         /\ permits' = p
         /\ UNCHANGED << waiters, result, err >>
         /\ BeginAttempt(i)

\* tokio Semaphore::acquire: a permit is free.
\* Mutant of CanAcquire: a permit is taken when none is free.
CanAcquireAlways == permits >= 0
CanAcquire == permits > 0

\* lib.rs:156-159.  The first poll of item i's future: it takes a permit and
\* goes on, or joins the queue of the semaphore.
Start(i) ==
    /\ pc[i] = "init"
    /\ \A j \in downloads : j < i => pc[j] # "init"
    /\ IF CanAcquire
       THEN Enter(i, permits - 1)
       ELSE /\ pc' = [pc EXCEPT ![i] = "queued"]
            /\ waiters' = Append(waiters, i)
            /\ UNCHANGED << permits, result, err, retry, att >>
    /\ UNCHANGED << input, fs, faults, ranged >>

\* lib.rs:158-159.  Item i was handed a permit while queued and goes on.
Resume(i) ==
    /\ Polled
    /\ pc[i] = "granted"
    /\ Enter(i, permits)
    /\ UNCHANGED << input, fs, faults, ranged >>

\* lib.rs:239-245.  The backoff sleep of item i is over: the next attempt.
Wake(i) ==
    /\ Polled
    /\ pc[i] = "sleep"
    /\ pc' = [pc EXCEPT ![i] = "send"]
    /\ BeginAttempt(i)
    /\ UNCHANGED << permits, waiters, result, err >>
    /\ UNCHANGED << input, fs, faults, ranged >>


\* ---------------------------------------------------------------- attempt
\* task.rs:60-63.
supports_resume(s) == s = 206
\* Mutants of should_resume: the status compared with the wrong constant, and
\* the status not looked at.
should_resume_200(s, k) == s = 200 /\ k > 0
should_resume_any(s, k) == k > 0
should_resume(s, k) == supports_resume(s) /\ k > 0

\* task.rs:65-71.  OpenOptions write, create, truncate(!resume),
\* append(resume): the file the open leaves at the path that held f.
\* Mutant of OpenFile: the file is truncated whatever resume is.
OpenFileTruncated(f, resume) == << >>
OpenFile(f, resume) == IF resume /\ f # NoFile THEN f ELSE << >>

\* task.rs:94 (tokio BufWriter::write_all): a chunk that does not fit in the
\* buffer flushes the buffer first; a chunk as large as the buffer goes
\* to the file directly.  Then task.rs:97-99: the buffer is flushed once it
\* holds flush_threshold.  d is the file, b the buffer, c the chunk.
\* Mutant of WriteAll: the chunk replaces the buffer instead of following it.
WriteAllLossy(d, b, c) == [file |-> d, buf |-> c]
WriteAll(d, b, c) ==
    LET d1 == IF Len(b) + Len(c) > writer_capacity THEN d \o b ELSE d
        b1 == IF Len(b) + Len(c) > writer_capacity THEN << >> ELSE b
    IN  IF Len(c) >= writer_capacity
        THEN [file |-> d1 \o c, buf |-> b1]
        ELSE [file |-> d1, buf |-> b1 \o c]

\* task.rs:97.
FlushDue(b) == Len(b) >= flush_threshold

\* Mutant of WriteChunk: the flush writes the buffer and does not empty it.
WriteChunkKeepsBuffer(d, b, c) ==
    LET w == WriteAll(d, b, c)
    IN  IF FlushDue(w.buf)
        THEN [file |-> w.file \o w.buf, buf |-> w.buf]
        ELSE w

WriteChunk(d, b, c) ==
    LET w == WriteAll(d, b, c)
    IN  IF FlushDue(w.buf)
        THEN [file |-> w.file \o w.buf, buf |-> << >>]
        ELSE w

\* task.rs:88-91.  The stream has yielded None: the whole body has arrived.
\* Mutant of StreamDone: the stream is taken to be over after one chunk.
StreamDoneEarly(i) == Len(stream[i]) < remaining_size[i] \/ stream[i] = << >>
StreamDone(i) == stream[i] = << >>

\* task.rs:118-126.  The digest of the temp file against item.integrity.
\* Mutant of IntegrityOk: the comparison is skipped.
IntegritySkipped(i) == TRUE
IntegrityOk(i) == << Digest(temp[TempPath(i)]) >> = integrity[i]

\* A fault may still be injected: the environment has injected fewer than
\* MaxFaults, or it is one that does not count them (faults < 0).
CanFault == faults < MaxFaults
\* The count of faults after one more.
Injected == IF faults < 0 THEN faults ELSE faults + 1

\* task.rs:59-61.  The response to the request of item i arrives, with
\* status s.
Respond(i, s) ==
    /\ Polled
    /\ pc[i] = "send"
    /\ s \in FaultStatuses => CanFault
    /\ faults' = IF s \in FaultStatuses THEN Injected ELSE faults
    /\ pc' = [pc EXCEPT ![i] = "open"]
    /\ status' = [status EXCEPT ![i] = s]
    /\ stream' = [stream EXCEPT ![i] = Body(i, s, downloaded_size[i])]
    /\ remaining_size' =
          [remaining_size EXCEPT ![i] = Len(Body(i, s, downloaded_size[i]))]
    /\ UNCHANGED << permits, waiters, result, err, retry >>
    /\ UNCHANGED << downloaded_size, writer, tracker, pre, fs, input >>
    /\ ranged' = [ranged EXCEPT ![i] = @ /\ s = RangedStatus(downloaded_size[i])]

\* task.rs:50.  request.send() fails with a reqwest error of kind k.
SendFail(i, k, d, r) ==
    /\ Polled
    /\ pc[i] = "send"
    /\ CanFault
    /\ faults' = Injected
    /\ AttemptFails(i, ReqwestErr(k), d, r)
    /\ UNCHANGED << fs, input, ranged >>

\* task.rs:65-82.  The temp file is opened, the tracker and the writer are
\* built.
Open(i) ==
    /\ Polled
    /\ pc[i] = "open"
    /\ temp' = [temp EXCEPT ![TempPath(i)] =
                  OpenFile(@, should_resume(status[i], downloaded_size[i]))]
    /\ tracker' = [tracker EXCEPT ![i] = downloaded_size[i]]
    /\ writer' = [writer EXCEPT ![i] = << >>]
    /\ pc' = [pc EXCEPT ![i] = "stream"]
    /\ UNCHANGED << permits, waiters, result, err, retry >>
    /\ UNCHANGED << downloaded_size, status, remaining_size, stream, pre >>
    /\ UNCHANGED << dest, faults, input, ranged >>

\* task.rs:71.  The open fails with an I/O error of kind k.
OpenFail(i, k, d, r) ==
    /\ Polled
    /\ pc[i] = "open"
    /\ CanFault
    /\ faults' = Injected
    /\ AttemptFails(i, IoErr(k), d, r)
    /\ UNCHANGED << fs, input, ranged >>

\* task.rs:88-100.  The next chunk arrives: progress, write, flush if due.
Chunk(i) ==
    /\ Polled
    /\ pc[i] = "stream"
    /\ ~StreamDone(i)
    /\ LET w == WriteChunk(temp[TempPath(i)], writer[i], << Head(stream[i]) >>)
       IN  /\ temp' = [temp EXCEPT ![TempPath(i)] = w.file]
           /\ writer' = [writer EXCEPT ![i] = w.buf]
    /\ stream' = [stream EXCEPT ![i] = Tail(@)]
    /\ tracker' = [tracker EXCEPT ![i] = @ + 1]
    /\ UNCHANGED << coord, retry >>
    /\ UNCHANGED << downloaded_size, status, remaining_size, pre >>
    /\ UNCHANGED << dest, faults, input, ranged >>

\* task.rs:88-90.  No chunk within read_chunk_timeout (a Timeout error), or
\* the stream yields a reqwest body error.  The buffer is dropped unflushed.
ChunkFail(i, e, d, r) ==
    /\ Polled
    /\ pc[i] = "stream"
    /\ CanFault
    /\ faults' = Injected
    /\ AttemptFails(i, e, d, r)
    /\ UNCHANGED << fs, input, ranged >>

\* task.rs:98 and 103.  A flush of the buffer fails with an I/O error of
\* kind k: the one due after the next chunk, or the one after the stream.
FlushFail(i, k, d, r) ==
    /\ Polled
    /\ pc[i] = "stream"
    /\ IF StreamDone(i) THEN TRUE
       ELSE FlushDue(WriteAll(temp[TempPath(i)], writer[i], << Head(stream[i]) >>).buf)
    /\ CanFault
    /\ faults' = Injected
    /\ AttemptFails(i, IoErr(k), d, r)
    /\ UNCHANGED << fs, input, ranged >>

\* task.rs:102-117.  The stream is over: flush, sync_all; then the digest
\* if the item asks for one, else the promotion.
StreamEnd(i) ==
    /\ Polled
    /\ pc[i] = "stream"
    /\ StreamDone(i)
    /\ temp' = [temp EXCEPT ![TempPath(i)] = @ \o writer[i]]
    /\ writer' = [writer EXCEPT ![i] = << >>]
    /\ pc' = [pc EXCEPT ![i] = IF integrity[i] # NoIntegrity THEN "verify" ELSE "rename"]
    /\ UNCHANGED << permits, waiters, result, err, retry >>
    /\ UNCHANGED << downloaded_size, status, remaining_size, stream, tracker, pre >>
    /\ UNCHANGED << dest, faults, input, ranged >>

\* task.rs:117-135.  The digest of the temp file is compared: on a mismatch
\* the temp file is removed and the attempt ends with IntegrityHash.
Verify(i) ==
    /\ Polled
    /\ pc[i] = "verify"
    /\ IF IntegrityOk(i)
       THEN /\ pc' = [pc EXCEPT ![i] = "rename"]
            /\ UNCHANGED << permits, waiters, result, err, retry, att, temp >>
       ELSE /\ temp' = [temp EXCEPT ![TempPath(i)] = NoFile]
            /\ AttemptFails(i, IntegrityErr, 0, 0)
    /\ UNCHANGED << dest, faults, input, ranged >>

\* task.rs:138-154.  create_dir_all, then the rename succeeds.
Rename(i) ==
    /\ Polled
    /\ pc[i] = "rename"
    /\ dest' = [dest EXCEPT ![i] = temp[TempPath(i)]]
    /\ temp' = [temp EXCEPT ![TempPath(i)] = NoFile]
    /\ Succeed(i)
    /\ UNCHANGED << retry, att, faults, input, ranged >>

\* task.rs:142-145.  The rename fails with CrossesDevices.
RenameCrossesDevices(i) ==
    /\ Polled
    /\ pc[i] = "rename"
    /\ pc' = [pc EXCEPT ![i] = "copy"]
    /\ UNCHANGED << permits, waiters, result, err, retry, att, fs, faults, input, ranged >>

\* task.rs:147-149.  The rename fails with another I/O error, of kind k.
RenameFail(i, k, d, r) ==
    /\ Polled
    /\ pc[i] = "rename"
    /\ CanFault
    /\ faults' = Injected
    /\ AttemptFails(i, IoErr(k), d, r)
    /\ UNCHANGED << fs, input, ranged >>

\* Mutant of Copy: the destination is created and nothing is copied into it.
CopyNothing(i) ==
    /\ Polled
    /\ pc[i] = "copy"
    /\ dest' = [dest EXCEPT ![i] = << >>]
    /\ pc' = [pc EXCEPT ![i] = "remove"]
    /\ UNCHANGED << permits, waiters, result, err, retry, att, temp, faults, input, ranged >>

\* task.rs:145.
Copy(i) ==
    /\ Polled
    /\ pc[i] = "copy"
    /\ dest' = [dest EXCEPT ![i] = temp[TempPath(i)]]
    /\ pc' = [pc EXCEPT ![i] = "remove"]
    /\ UNCHANGED << permits, waiters, result, err, retry, att, temp, faults, input, ranged >>

\* task.rs:146-154.
Remove(i) ==
    /\ Polled
    /\ pc[i] = "remove"
    /\ temp' = [temp EXCEPT ![TempPath(i)] = NoFile]
    /\ Succeed(i)
    /\ UNCHANGED << retry, att, dest, faults, input, ranged >>

\* lib.rs:164-167.  Every item has succeeded: the progress display is
\* cleared and the call returns Ok.
Clear ==
    /\ result = Joined
    /\ result' = Ok
    /\ UNCHANGED << pc, permits, waiters, err, retry, att, fs, faults, input, ranged >>

\* lib.rs:165.  mp.clear() fails with an I/O error of kind k, which the call
\* returns.
ClearFail(k) ==
    /\ result = Joined
    /\ CanFault
    /\ faults' = Injected
    /\ result' = IoErr(k)
    /\ UNCHANGED << pc, permits, waiters, err, retry, att, fs, input, ranged >>

\* ----------------------------------------------------------------- system
\* The inputs of the batch specification: a response with the resource, a
\* transient and a permanent transport error, a stalled stream; every failed
\* attempt lasts the request timeout and every sleep the interval itself.
BatchStatuses == {200}
BatchDurations == {timeout}

Next ==
    \/ \E i \in downloads : Start(i)
    \/ \E i \in downloads : Resume(i)
    \/ \E i \in downloads : Wake(i)
    \/ \E i \in downloads, s \in BatchStatuses : Respond(i, s)
    \/ \E i \in downloads, k \in ReqwestFaults, d \in BatchDurations, r \in NoJitter :
          SendFail(i, k, d, r)
    \/ \E i \in downloads : Open(i)
    \/ \E i \in downloads : Chunk(i)
    \/ \E i \in downloads, d \in BatchDurations, r \in NoJitter :
          ChunkFail(i, TimeoutErr, d, r)
    \/ \E i \in downloads : StreamEnd(i)
    \/ \E i \in downloads : Verify(i)
    \/ \E i \in downloads : Rename(i)
    \/ Clear
    \/ \E k \in IoFaults : ClearFail(k)

\* The state every call starts from, whatever its items.
InitCall ==
    /\ pc = [j \in Items |-> IF j \in downloads THEN "init" ELSE "none"]
    /\ permits = max_concurrent
    /\ waiters = << >>
    /\ result = Running
    /\ err = [j \in Items |-> NoErr]
    /\ attempts = [j \in Items |-> 0]
    /\ elapsed = [j \in Items |-> 0]
    /\ current_interval = [j \in Items |-> initial_interval]
    /\ delay = [j \in Items |-> 0]
    /\ downloaded_size = [j \in Items |-> 0]
    /\ status = [j \in Items |-> 0]
    /\ remaining_size = [j \in Items |-> 0]
    /\ stream = [j \in Items |-> << >>]
    /\ writer = [j \in Items |-> << >>]
    /\ tracker = [j \in Items |-> 0]
    /\ pre = [j \in Items |-> NoFile]
    /\ ranged = [j \in Items |-> TRUE]

\* The temp files an earlier run may have left for item i: none, a prefix of
\* the resource (the whole of it included), or something else.
PriorFiles(i) ==
    {NoFile, StaleFile} \cup {SubSeq(Content(i), 1, n) : n \in 1 .. ContentLen}

\* A call with NumItems items with distinct target file names (or none),
\* each with no expected digest or with one its resource does not have, and
\* no file left by an earlier run.
Init ==
    /\ downloads = Items
    /\ name \in [Items -> 0 .. NumItems]
    /\ \A j \in Items : name[j] \in {0, j}
    /\ integrity \in [Items -> {NoIntegrity, BadIntegrity}]
    /\ \A j \in Items : name[j] = 0 => integrity[j] = NoIntegrity
    /\ prior = [j \in Items |-> NoFile]
    /\ temp = prior
    /\ dest = [j \in Items |-> NoFile]
    /\ faults = 0
    /\ InitCall

Spec == Init /\ [][Next]_vars

\* A step of the call in which the future of item i goes on: it is polled
\* after a wake-up (a permit, a response, a chunk, a timeout that fires, the
\* end of a sleep) or dropped.
Polls(i) ==
    /\ Next
    /\ << pc[i], stream[i], writer[i] >>' # << pc[i], stream[i], writer[i] >>
\* try_join_all has returned Ok and the call goes on to its return.
Returns == Clear \/ \E k \in IoFaults : ClearFail(k)

\* The batch call under a fair runtime: a woken future is polled in the end
\* (tokio runs every ready task), every request and every chunk read ends
\* in a response, a chunk or a timeout (task.rs:48 and 88-91), every sleep
\* ends, and the call itself goes on once try_join_all is ready.
SpecFair ==
    /\ Init
    /\ [][Next]_vars
    /\ \A i \in Items : WF_vars(Polls(i))
    /\ WF_vars(Returns)

\* A call with one item, of any kind: with or without a file name, with a
\* matching, a different or no expected digest, with any temp file and with
\* or without a destination left by an earlier run.
InitItem ==
    /\ downloads = {1}
    /\ name \in [Items -> 0 .. 1]
    /\ \A j \in Items \ {1} : name[j] = 0
    /\ integrity \in [Items -> {NoIntegrity, GoodIntegrity(1), BadIntegrity}]
    /\ \A j \in Items \ {1} : integrity[j] = NoIntegrity
    /\ prior \in [Items -> PriorFiles(1)]
    /\ \A j \in Items \ {1} : prior[j] = NoFile
    /\ temp = prior
    /\ dest \in [Items -> {NoFile, OldDest}]
    /\ \A j \in Items \ {1} : dest[j] = NoFile
    /\ faults = 0
    /\ InitCall

\* The actions of a call with one item: no item ever waits for a permit.
NextItem ==
    \/ \E i \in downloads : Start(i)
    \/ \E i \in downloads : Wake(i)
    \/ \E i \in downloads :
          \E s \in PlainStatuses(downloaded_size[i]) \cup FaultStatuses : Respond(i, s)
    \/ \E i \in downloads, k \in ReqwestFaults, l \in Lapses :
          SendFail(i, k, l[1], l[2])
    \/ \E i \in downloads : Open(i)
    \/ \E i \in downloads, k \in IoFaults, l \in Lapses :
          OpenFail(i, k, l[1], l[2])
    \/ \E i \in downloads : Chunk(i)
    \/ \E i \in downloads, e \in ChunkFaults, l \in Lapses :
          ChunkFail(i, e, l[1], l[2])
    \/ \E i \in downloads, k \in IoFaults, l \in Lapses :
          FlushFail(i, k, l[1], l[2])
    \/ \E i \in downloads : StreamEnd(i)
    \/ \E i \in downloads : Verify(i)
    \/ \E i \in downloads : Rename(i)
    \/ \E i \in downloads : RenameCrossesDevices(i)
    \/ \E i \in downloads, k \in IoFaults, l \in Lapses :
          RenameFail(i, k, l[1], l[2])
    \/ \E i \in downloads : Copy(i)
    \/ \E i \in downloads : Remove(i)
    \/ Clear
    \/ \E k \in IoFaults : ClearFail(k)

SpecItem == InitItem /\ [][NextItem]_vars

\* A call with one item and no file left by an earlier run, in an
\* environment that may fail every request, without end.
InitRetry ==
    /\ downloads = {1}
    /\ name = [j \in Items |-> IF j = 1 THEN 1 ELSE 0]
    /\ integrity = [j \in Items |-> NoIntegrity]
    /\ prior = [j \in Items |-> NoFile]
    /\ temp = prior
    /\ dest = [j \in Items |-> NoFile]
    /\ faults = -1
    /\ InitCall

RetryStatuses == {200}

\* The actions of that call: requests fail with a transient or a permanent
\* error, at once or at the request timeout; a sleep is the interval, or
\* the interval with the least or the most jitter.
NextRetry ==
    \/ \E i \in downloads : Start(i)
    \/ \E i \in downloads : Wake(i)
    \/ \E i \in downloads, s \in RetryStatuses : Respond(i, s)
    \/ \E i \in downloads, k \in ReqwestFaults, l \in Lapses :
          SendFail(i, k, l[1], l[2])
    \/ \E i \in downloads : Open(i)
    \/ \E i \in downloads : Chunk(i)
    \/ \E i \in downloads : StreamEnd(i)
    \/ \E i \in downloads : Rename(i)
    \/ Clear

\* The tokio runtime polls a future that was woken: a sleep that is over, a
\* response or a chunk that has arrived.
SpecRetry == InitRetry /\ [][NextRetry]_vars /\ WF_vars(NextRetry)

\* A call with two items whose targets have the same file name (in two
\* directories) or two different ones, and no file left by an earlier run.
\* It serves the question whether two attempts are at one temp file at the
\* same time; what such a file holds after both have written it, and where
\* the writes of one item go once the other has renamed the file, is not
\* followed further.
InitNames ==
    /\ downloads = {1, 2}
    /\ name \in [Items -> 0 .. 2]
    /\ name[1] = 1 /\ name[2] \in {1, 2}
    /\ \A j \in Items \ {1, 2} : name[j] = 0
    /\ integrity = [j \in Items |-> NoIntegrity]
    /\ prior = [j \in Items |-> NoFile]
    /\ temp = prior
    /\ dest = [j \in Items |-> NoFile]
    /\ faults = 0
    /\ InitCall

\* The actions of that call: both items hold a permit from their first poll.
NextNames ==
    \/ \E i \in downloads : Start(i)
    \/ \E i \in downloads : Wake(i)
    \/ \E i \in downloads : \E s \in PlainStatuses(downloaded_size[i]) : Respond(i, s)
    \/ \E i \in downloads, k \in ReqwestFaults, d \in BatchDurations, r \in NoJitter :
          SendFail(i, k, d, r)
    \/ \E i \in downloads : Open(i)
    \/ \E i \in downloads : Chunk(i)
    \/ \E i \in downloads, d \in BatchDurations, r \in NoJitter :
          ChunkFail(i, TimeoutErr, d, r)
    \/ \E i \in downloads : StreamEnd(i)
    \/ \E i \in downloads : Rename(i)
    \/ Clear

SpecNames == InitNames /\ [][NextNames]_vars


\* ----------------------------------------------------------------- claims
\* The await points of an attempt after its temp file was opened.
Opened == {"stream", "verify", "rename", "copy", "remove"}
\* A destination this call has not written: none, or an earlier run's.
Untouched(i) == dest[i] \in {NoFile, OldDest}
\* The units of the temp file an attempt keeps: what it found when the
\* response is 206 to an offset above 0, nothing otherwise.
Kept(i) == IF status[i] = 206 /\ downloaded_size[i] > 0 THEN pre[i] ELSE << >>

\* C1: an item that had no temp file when the call started and whose
\* download succeeded has no temp file left, and its destination holds
\* exactly what the server sent for it: the whole body of the last response
\* after the offset that response was asked for, its length that offset
\* plus the content length the server reported.
C1_SuccessLeavesExactBytes ==
    \A i \in downloads :
        (pc[i] = "ok" /\ prior[i] = NoFile) =>
            /\ temp[name[i]] = NoFile
            /\ dest[i] = Kept(i) \o Body(i, status[i], downloaded_size[i])
            /\ Len(dest[i]) = Len(Kept(i)) + remaining_size[i]
            /\ \A p \in 1 .. Len(dest[i]) : dest[i][p] # StaleFile[1]

C1_Witness ==
    \E i \in downloads :
        pc[i] = "ok" /\ prior[i] = NoFile /\ attempts[i] > 1 /\ dest[i] = Content(i)

\* C2: an attempt that found K > 0 units in the temp file and got 206 opens
\* the file for append: the K units stay while it streams, and on success the
\* destination is those K units followed by the units of this attempt.
C2_ResumeAppends ==
    \A i \in downloads :
        (status[i] = 206 /\ downloaded_size[i] > 0) =>
            /\ pc[i] \in Opened =>
                   /\ Len(temp[name[i]]) >= downloaded_size[i]
                   /\ SubSeq(temp[name[i]], 1, downloaded_size[i]) = pre[i]
            /\ pc[i] = "ok" =>
                   /\ Len(dest[i]) = downloaded_size[i] + remaining_size[i]
                   /\ Len(dest[i]) >= downloaded_size[i]
                   /\ SubSeq(dest[i], 1, downloaded_size[i]) = pre[i]
                   /\ SubSeq(dest[i], downloaded_size[i] + 1, Len(dest[i]))
                         = SubSeq(Content(i), downloaded_size[i] + 1, ContentLen)

C2_Witness ==
    \E i \in downloads :
        /\ pc[i] = "ok" /\ status[i] = 206 /\ downloaded_size[i] > 0
        /\ pre[i] = StaleFile /\ Len(dest[i]) = ContentLen

\* C3: an attempt that found K > 0 units in the temp file and got 200 with
\* the full resource rewrites the file from zero: the file, the buffer and
\* the units to come are the resource at every moment, and on success the
\* destination is the resource, ContentLen long and not K + ContentLen.
C3_FullResponseTruncates ==
    \A i \in downloads :
        (status[i] = 200 /\ downloaded_size[i] > 0) =>
            /\ pc[i] \in {"stream"} =>
                   temp[name[i]] \o writer[i] \o stream[i] = Content(i)
            /\ pc[i] \in Opened \ {"stream"} => temp[name[i]] = Content(i)
            /\ pc[i] = "ok" => dest[i] = Content(i) /\ Len(dest[i]) = ContentLen

C3_Witness ==
    \E i \in downloads :
        pc[i] = "ok" /\ status[i] = 200 /\ downloaded_size[i] > 0

\* C4: at most max_concurrent items hold a permit of the semaphore, that is
\* are past sem.acquire() and not yet out of their retry loop.
C4_AtMostNAdmitted ==
    /\ Cardinality(Holders) <= max_concurrent
    /\ permits >= 0

C4_Witness ==
    /\ Cardinality(Holders) = max_concurrent
    /\ permits = 0
    /\ \E i \in downloads : pc[i] = "ok"
    /\ \E i \in downloads : pc[i] = "granted"

C7_FatalStatusFailsItem ==
    \A i \in downloads :
        (attempts[i] = 1 /\ status[i] = 404) =>
            /\ pc[i] \notin {"ok", "sleep"}
            /\ Untouched(i)
            /\ result # Ok

\* C8, as claimed: an attempt that gets a response with status 5xx, 408, 425,
\* 429 or 449 ends in a retryable failure: the body of the response is not
\* promoted to the destination and the item does not succeed by it.
C8_RetryStatusFailsAttempt ==
    \A i \in downloads :
        ((status[i] >= 500 /\ status[i] <= 599)
            \/ status[i] \in {408, 425, 429, 449}) =>
            /\ pc[i] # "ok"
            /\ Untouched(i)

\* C9, as claimed: an item that had no temp file, whose attempts but the last
\* failed with transient errors, and whose server honored every Range, ends
\* with the resource as its destination, no unit missing and none twice.
C9_RetriesYieldTheResource ==
    \A i \in downloads :
        (pc[i] = "ok" /\ ranged[i] /\ prior[i] = NoFile /\ attempts[i] > 1) =>
            dest[i] = Content(i)

\* C10, as claimed: the failure of one item cancels no sibling: no item's
\* future is dropped before its retry loop has ended.
C10_NoSiblingCancelled ==
    \A i \in downloads : pc[i] # "dropped"

\* C11, as claimed: once the call has returned, it has returned Ok exactly
\* when the retry loop of every item ended in success, and otherwise the
\* error of the one item whose retry loop has failed.
C11_ReturnsFirstFailure ==
    result \notin {Running, Joined} =>
        /\ (result = Ok) <=> (\A i \in downloads : pc[i] = "ok")
        /\ result # Ok =>
               \E i \in downloads : pc[i] = "failed" /\ err[i] = result

\* a is the beginning of b.
IsPrefix(a, b) == Len(a) <= Len(b) /\ SubSeq(b, 1, Len(a)) = a
\* The retry loop of item i has ended in a failure that is not an integrity
\* mismatch (nor the lack of a file name, which has no temp file).
FailedOther(i) ==
    pc[i] = "failed" /\ err[i].type \notin {"IntegrityHash", "Path"}

\* C12, as claimed: when the retry loop of an item ends in a failure other
\* than an integrity mismatch, the temp file its last attempt found is still
\* there and still begins with the units that attempt found: no failing
\* attempt has deleted or truncated away units flushed before it.
C12_FailureKeepsFlushedUnits ==
    \A i \in downloads :
        (FailedOther(i) /\ pre[i] # NoFile) =>
            /\ temp[name[i]] # NoFile
            /\ IsPrefix(pre[i], temp[name[i]])

\* C12, amended: such a failure never deletes the temp file.  If the last
\* attempt failed before it opened the file, the file is as the attempt
\* found it; if it resumed (206 to an offset above 0) the file is the units
\* it found followed by the units of the body it flushed; if its response
\* had any other status, the open truncated the file, which holds only the
\* units of the body this attempt flushed.
C12_FailureKeepsResumedUnits ==
    \A i \in downloads :
        FailedOther(i) =>
            /\ pre[i] # NoFile => temp[name[i]] # NoFile
            /\ \/ temp[name[i]] = pre[i]
               \/ \E n \in 0 .. remaining_size[i] :
                     temp[name[i]] =
                        Kept(i) \o SubSeq(Body(i, status[i], downloaded_size[i]), 1, n)
            /\ status[i] = 0 => temp[name[i]] = pre[i]

C12_Witness ==
    \E i \in downloads :
        /\ FailedOther(i) /\ status[i] = 206 /\ downloaded_size[i] > 0
        /\ IsPrefix(pre[i], temp[name[i]]) /\ Len(temp[name[i]]) > Len(pre[i])

\* C13: a permit is out of the semaphore exactly while an item holds it,
\* between its sem.acquire() and the end (or the drop) of its future: the
\* free permits and the holders add up to max_concurrent at every moment,
\* and once the call has returned or try_join_all has, on success or on
\* failure, nobody holds or waits for a permit and all max_concurrent are free.
C13_PermitsReleased ==
    /\ permits + Cardinality(Holders) = max_concurrent
    /\ result # Running =>
           /\ permits = max_concurrent
           /\ Holders = {}
           /\ waiters = << >>

C13_Witness ==
    /\ result \notin {Running, Joined, Ok}
    /\ permits = max_concurrent
    /\ \E i \in downloads : pc[i] = "dropped" /\ attempts[i] > 0
    /\ \E i \in downloads : pc[i] = "ok"
    /\ \E i \in downloads : pc[i] = "failed" /\ attempts[i] > 1

FatalErrors == {IntegrityErr, IoErr("PermissionDenied"), ReqwestErr("builder")}

\* C15: once an attempt of an item has ended with a permanent error, the
\* retry loop of the item has failed with that very error, which the call
\* has returned: the item is not asleep and in no further attempt, in any
\* state that follows, however little of the time budget is used.
C15_FatalEndsRetryLoop ==
    \A i \in downloads :
        err[i] \in FatalErrors =>
            /\ pc[i] = "failed"
            /\ result = err[i]

C15_Witness ==
    \E i \in downloads :
        /\ err[i] = ReqwestErr("builder") /\ pc[i] = "failed"
        /\ attempts[i] = 2 /\ elapsed[i] < timeout

\* The least sleep there is: the initial interval with the largest jitter
\* downwards.
MinSleep == RandomizedInterval(initial_interval, -randomization_factor)

Received(i) == remaining_size[i] - Len(stream[i])

\* C17: in every attempt, the first and every retry, the offset the request
\* is sent with is the length the temp file has on disk when the attempt
\* starts (0 when there is none), and the tracker starts from that offset
\* and counts the units received in this attempt on top of it: nothing a
\* failed attempt counted is in it.
C17_AttemptProbesTempFile ==
    \A i \in downloads :
        /\ pc[i] \in {"send", "open"} =>
               /\ downloaded_size[i] =
                      (IF temp[name[i]] = NoFile THEN 0 ELSE Len(temp[name[i]]))
               /\ pre[i] = temp[name[i]]
        /\ pc[i] \in Opened =>
               /\ downloaded_size[i] = (IF pre[i] = NoFile THEN 0 ELSE Len(pre[i]))
               /\ tracker[i] = downloaded_size[i] + Received(i)

C17_Witness ==
    \E i \in downloads :
        /\ attempts[i] = 3 /\ pc[i] = "stream" /\ Received(i) = 0
        /\ prior[i] = NoFile /\ downloaded_size[i] = ContentLen
        /\ tracker[i] = ContentLen

\* C18: an item whose target has no file name never starts an attempt: it
\* waits for its permit, fails with the Path error (which the call returns)
\* or is dropped, with no request sent, no response, no sleep and nothing
\* of the backoff used; and the step in which it fails touches no temp file
\* and no destination.
C18_NoFileNameFailsFirst ==
    /\ [](\A i \in downloads :
            name[i] = 0 =>
                /\ pc[i] \in {"init", "queued", "granted", "failed", "dropped"}
                /\ attempts[i] = 0
                /\ status[i] = 0
                /\ elapsed[i] = 0 /\ current_interval[i] = initial_interval
                /\ dest[i] = NoFile
                /\ pc[i] = "failed" => (err[i] = PathErr /\ result = PathErr))
    /\ [][\A i \in downloads :
            (name[i] = 0 /\ pc[i] # "failed" /\ pc'[i] = "failed") =>
                UNCHANGED << temp, dest >>]_vars

C18_Witness ==
    /\ result = PathErr
    /\ \E i \in downloads : name[i] = 0 /\ pc[i] = "failed" /\ err[i] = PathErr
    /\ \E i \in downloads : pc[i] = "ok"
    /\ \E i \in downloads : pc[i] = "dropped" /\ attempts[i] > 0

\* C19: while an attempt has the temp file open, the file followed by the
\* buffer is the units the attempt kept followed by the units of the body
\* received so far, so the file is never longer than what the server has
\* sent; once the stream is over and the attempt is at the verification or
\* the promotion, the buffer is empty and the file holds every unit
\* received; and the step in which an attempt fails leaves the file as it
\* is (unless it is the removal after a digest mismatch): the units in the
\* buffer are not written.
C19_TempWithinReceived ==
    /\ [](\A i \in downloads :
            /\ pc[i] \in Opened =>
                   /\ temp[name[i]] # NoFile
                   /\ Received(i) >= 0
                   /\ temp[name[i]] \o writer[i] =
                         Kept(i) \o SubSeq(Body(i, status[i], downloaded_size[i]),
                                           1, Received(i))
                   /\ Len(temp[name[i]]) <= Len(Kept(i)) + Received(i)
            /\ pc[i] \in Opened \ {"stream"} =>
                   /\ writer[i] = << >>
                   /\ Received(i) = remaining_size[i]
                   /\ Len(temp[name[i]]) = Len(Kept(i)) + remaining_size[i])
    /\ [][\A i \in downloads :
            (pc[i] \in {"send", "open", "stream", "rename"}
                /\ pc'[i] \in {"sleep", "failed"}) =>
                    /\ temp' = temp
                    /\ writer'[i] = << >>]_vars

C19_Witness ==
    \E i \in downloads :
        /\ pc[i] = "stream" /\ attempts[i] > 1 /\ writer[i] # << >>
        /\ Kept(i) # << >> /\ temp[name[i]] = Kept(i)

\* The await points of an attempt: from the read of the temp file's length
\* to the rename or the removal of the file.
InAttempt == {"send", "open"} \cup Opened
\* Item i has taken a step of its attempt.
Stepped(i) == pc'[i] # pc[i] \/ stream'[i] # stream[i]

\* C20, as claimed: no two items of a call are in an attempt on the same
\* temp file at the same time.
C20_OneAttemptPerTempFile ==
    \A i, j \in downloads :
        (i # j /\ pc[i] \in InAttempt /\ pc[j] \in InAttempt) =>
            TempPath(i) # TempPath(j)

\* C20, amended: in a call whose items have pairwise different target file
\* names, no two items are in an attempt on the same temp file at the same
\* time, and the temp file of an item is changed only by a step of an
\* attempt of that item.
C20_DistinctNamesOneAttempt ==
    /\ [](\A i, j \in downloads :
            (i # j /\ name[i] # name[j]
                /\ pc[i] \in InAttempt /\ pc[j] \in InAttempt) =>
                    TempPath(i) # TempPath(j))
    /\ [][\A i \in downloads :
            ((\A j \in downloads \ {i} : name[j] # name[i])
                /\ name[i] # 0
                /\ temp'[TempPath(i)] # temp[TempPath(i)]) =>
                    (pc[i] \in InAttempt /\ Stepped(i))]_vars

C20_Witness ==
    /\ name[1] # name[2]
    /\ pc[1] = "stream" /\ pc[2] = "stream"
    /\ attempts[1] > 1
    /\ temp[TempPath(1)] = Content(1) /\ writer[2] # << >>

\* C21, as claimed: an attempt that starts with a temp file that holds the
\* whole resource (nothing of it remains to be fetched), against a server
\* that honors Range, goes through verification and finalization and ends
\* with the item succeeded, the destination holding exactly that content and
\* the temp file gone: it neither ends well with another destination nor
\* fails the digest the resource has.
C21_CompleteTempFileIsPromoted ==
    \A i \in downloads :
        (/\ pre[i] = Content(i)
         /\ ranged[i]
         /\ \/ pc[i] = "ok"
            \/ (pc[i] = "failed" /\ err[i] = IntegrityErr
                   /\ integrity[i] = GoodIntegrity(i))) =>
            /\ pc[i] = "ok"
            /\ dest[i] = Content(i)
            /\ temp[TempPath(i)] = NoFile

\* The gate has let item i in: it has been handed a permit.
Admitted(i) ==
    \/ pc[i] \in {"granted", "sleep", "ok", "failed"} \cup InAttempt
    \/ attempts[i] > 0

\* C22, as claimed: under a fair runtime, with every attempt ending, every
\* submitted item is admitted through the gate in the end, also with more
\* items than permits, no item waits for a permit for ever, and the call
\* returns in the end.
C22_EveryItemAdmitted ==
    /\ \A i \in Items : (i \in downloads) ~> Admitted(i)
    /\ \A i \in Items : (pc[i] = "queued") ~> (pc[i] # "queued")
    /\ <>(result \notin {Running, Joined})

\* Item i is streaming and the step ends its attempt with the Timeout error:
\* no chunk came within read_chunk_timeout.
ChunkTimedOut(i) ==
    /\ pc[i] = "stream"
    /\ pc'[i] \in {"sleep", "failed"}
    /\ err'[i] = TimeoutErr

\* C23: when no chunk comes within the per-chunk timeout, the attempt ends
\* with the Timeout error; the error ends the retry loop only when the
\* budget is used up (the time elapsed and the sleep that would follow pass
\* max_elapsed_time), else the item sleeps, within the budget, with nothing
\* of the attempt kept in memory, and the step that follows the sleep starts
\* another attempt.
C23_ChunkTimeoutIsRetried ==
    [][\A i \in downloads :
          /\ ChunkTimedOut(i) =>
                /\ pc'[i] = "failed" =>
                      /\ result' = TimeoutErr
                      /\ elapsed'[i]
                            + RandomizedInterval(current_interval[i],
                                                 randomization_factor)
                         > max_elapsed_time
                /\ pc'[i] = "sleep" =>
                      /\ result' = Running
                      /\ elapsed'[i] <= max_elapsed_time
                      /\ writer'[i] = << >> /\ stream'[i] = << >>
          /\ (pc[i] = "sleep" /\ err[i] = TimeoutErr /\ pc'[i] # "sleep") =>
                /\ pc'[i] = "send"
                /\ attempts'[i] = attempts[i] + 1
                /\ downloaded_size'[i] = FileLen(temp[TempPath(i)])
      ]_vars

\* A second attempt is streaming after the first one ended with a chunk
\* timeout that left units in the temp file.
C23_Witness ==
    \E i \in downloads :
        /\ err[i] = TimeoutErr
        /\ attempts[i] = 2
        /\ pc[i] = "stream"
        /\ downloaded_size[i] > 0
        /\ result = Running

\* The step puts item i to sleep before a retry.
FallsAsleep(i) == pc[i] # "sleep" /\ pc'[i] = "sleep"

\* b is a times 1.5, a whole number of ms: the half ms is cut.
OneAndAHalf(a, b) == 3 * a - 1 <= 2 * b /\ 2 * b <= 3 * a

\* C24: the base interval of an item is 500 ms until its first sleep; every
\* sleep, and nothing else, turns base interval c into 1.5 c, or into 5000 ms
\* once 1.5 c would reach that; so the base intervals never go down and
\* never pass 5000 ms; and every sleep lasts the base interval it was taken
\* with, give or take 15% of it.
C24_BackoffIntervals ==
    /\ [](\A i \in downloads :
            /\ current_interval[i] >= initial_interval
            /\ current_interval[i] <= max_interval
            /\ (attempts[i] <= 1 /\ pc[i] # "sleep") =>
                   (current_interval[i] = initial_interval /\ delay[i] = 0))
    /\ [][\A i \in downloads :
            /\ FallsAsleep(i) =>
                  /\ IF 3 * current_interval[i] >= 2 * max_interval
                     THEN current_interval'[i] = max_interval
                     ELSE OneAndAHalf(current_interval[i], current_interval'[i])
                  /\ current_interval'[i] >= current_interval[i]
                  /\ 100 * delay'[i]
                        >= (100 - randomization_factor) * current_interval[i]
                  /\ 100 * delay'[i]
                        <= (100 + randomization_factor) * current_interval[i]
                  /\ elapsed'[i] >= elapsed[i] + delay'[i]
            /\ ~FallsAsleep(i) =>
                  /\ current_interval'[i] = current_interval[i]
                  /\ delay'[i] = delay[i]
       ]_vars

\* The item sleeps for the most a sleep can last, 5000 ms and 15% more,
\* after the six sleeps that took the base interval from 500 ms to the cap
\* and a seventh attempt that failed at the request timeout.
C24_Witness ==
    \E i \in downloads :
        /\ pc[i] = "sleep"
        /\ attempts[i] = 7
        /\ current_interval[i] = max_interval
        /\ delay[i] = 5750
        /\ elapsed[i] = 500 + 750 + 1125 + 1687 + 2530 + 3795 + timeout + 5750

====
